---- MODULE Spec2Model ----
(***************************************************************************)
(* Model of the background task orchestrator (src/tasks.py, TaskManager)   *)
(* running on a single asyncio event loop, and of the in-memory cache      *)
(* (src/cache.py, MemoryCache).  One action is one run of a handler or of  *)
(* the execution wrapper between two suspension points.  The two services  *)
(* never call each other: Spec and FairSpec run the orchestrator with the  *)
(* cache at rest, SnapshotSpec adds a caller holding a get_all_tasks()     *)
(* result, CacheSpec runs the cache with the orchestrator at rest.  The    *)
(* functions around the cache have a specification each: StatsSpec         *)
(* (get_stats), KeySpec (cache_key), HandlerSpec (handlers interleaved on  *)
(* the event loop, get run statement by statement), CachedSpec (the cached *)
(* decorator) and UserSpec (cache_user_session, invalidate_user_cache).    *)
(***************************************************************************)
EXTENDS Integers, FiniteSets, Sequences, TLC

\* ------------------------------------------------------------------ bounds
MaxTasks == 2
MaxTime == 1
\* the largest max_size a MemoryCache is built with
MaxSize == 2
\* the largest value of time.time()
MaxClock == 2
\* the most get calls, and the most evictions, in one run
MaxCount == 1
\* the largest value of a counter when get_stats is called
MaxGets == 3
\* the most positional arguments of a cache_key call
MaxArgs == 1
\* the most characters of a user id
MaxIdLen == 2

\* ------------------------------------------------------ program constants
\* MemoryCache.__init__'s default_ttl (3600 s), on the scale of MaxClock
DefaultTtl == 2

\* ------------------------------------------------------------- value sets
Ids == 1..MaxTasks
\* the max_age_hours arguments of cleanup_old_tasks, in ticks of now
MaxAges == {0, 1}
\* one id that create_task never hands out (an unknown task id)
UnknownId == 0
AnyId == Ids \cup {UnknownId}

\* Python's None, for the Optional[str] / Optional[Dict] fields
None == "None"
\* Optional[datetime] fields hold NoTime until they are set
NoTime == -1

\* TaskStatus (src/tasks.py:16-20)
PENDING == "pending"
RUNNING == "running"
COMPLETED == "completed"
FAILED == "failed"
TaskStatus == {PENDING, RUNNING, COMPLETED, FAILED}

\* the kinds of callable handed to create_task
FuncKinds == {"coroutine", "plain"}
\* values the submitted work can return (a dict, or Python's None)
ReturnValues == {"r1", None}
\* exceptions (subclasses of Exception) the submitted work can raise
Exceptions == {"Exception()", "ValueError('boom')"}

\* str(e) of an exception: its single argument, the empty string without one
ExcStr(e) ==
  CASE e = "Exception()" -> ""
    [] e = "ValueError('boom')" -> "boom"

\* how one invocation of the work ends, as seen at src/tasks.py:78-81
\*   return    func returned val
\*   raise     func raised the Exception val
\*   base      func raised a BaseException that is no Exception
\*             (KeyboardInterrupt, SystemExit, a CancelledError of its own)
\*   cancelled the CancelledError thrown in by handle.cancel() came back out
Returned == [kind : {"return"}, val : ReturnValues]
Raised == [kind : {"raise"}, val : Exceptions]
BaseRaised == [kind : {"base"}, val : {None}]
CancelledOut == [kind : {"cancelled"}, val : {None}]

VARIABLES
  tasks,          \* TaskManager.tasks: id -> Task record
  running_tasks,  \* TaskManager.running_tasks: the ids holding an asyncio handle
  pc,             \* position of the coroutine _run_task(id)
  must_cancel,    \* handle.cancel() was requested and not yet delivered
  func,           \* the kind of callable submitted for id
  execCount,      \* history: how many times func was invoked for id
  cancelOk,       \* history: cancel_task(id) has returned True
  now,            \* datetime.utcnow(), a logical clock
  next_id,        \* the next fresh uuid4
  last,           \* the handler or wrapper step that ran last, with how
                  \* it ended: [kind, val] as for the work's outcomes, and
                  \* kind "value" for a handler's return value
  snapshot,       \* the dict a caller got from get_all_tasks(): key -> the
                  \* Task object it refers to, named by the object's id
  cache,          \* MemoryCache.cache: the dict's items in insertion order
  stats,          \* MemoryCache.stats
  max_size,       \* MemoryCache.max_size
  clock,          \* time.time()
  cret,           \* the cache operation that ran last: its key, the value
                  \* (ret) or count (n) it returned, and the entry a get
                  \* found expired or a set evicted (gone, as logged)
  call,           \* the call of a function around the cache (get_stats,
                  \* cache_key, a cached wrapper) that ran last: its
                  \* arguments and what it returned
  handler         \* each request handler's position: at an await, or
                  \* inside a MemoryCache.get for key

\* the orchestrator's variables
taskVars == <<tasks, running_tasks, pc, must_cancel, func, execCount,
              cancelOk, now, next_id, last>>
\* the cache's variables
cacheVars == <<cache, stats, max_size, clock, cret>>

\* the callers of the cache
callVars == <<call, handler>>

vars == <<taskVars, snapshot, cacheVars, callVars>>

Value(v) == [kind |-> "value", val |-> v]
Raise(e) == [kind |-> "raise", val |-> e]

\* Task(...) as built by create_task (src/tasks.py:48-53) with the dataclass
\* defaults.  id is the key in tasks; name, created_at and started_at are
\* written once and read by no operation of the manager, and are left out.
NewTask ==
  [status |-> PENDING, completed_at |-> NoTime,
   result |-> None, error |-> None, progress |-> 0]

\* the request handlers that use the cache
Handlers == {"h1", "h2"}

\* no function around the cache has been called, every handler is at an
\* await
CallersAtRest ==
  /\ call = [fn |-> "none"]
  /\ handler = [h \in Handlers |-> [pc |-> "await", key |-> None]]

\* MemoryCache.__init__(max_size) (src/cache.py:38-46)
CacheBuilt(m) ==
  /\ cache = <<>>
  /\ stats = [hits |-> 0, misses |-> 0, evictions |-> 0]
  /\ max_size = m
  /\ clock = 0
  /\ cret = [op |-> "init", key |-> None, ret |-> None, n |-> 0,
                        gone |-> <<>>]

\* TaskManager.__init__ and the module-level singletons task_manager and
\* cache = MemoryCache(), the latter with the default max_size
Init ==
  /\ tasks = <<>>
  /\ running_tasks = {}
  /\ pc = [i \in Ids |-> "none"]
  /\ must_cancel = [i \in Ids |-> FALSE]
  /\ func = [i \in Ids |-> "none"]
  /\ execCount = [i \in Ids |-> 0]
  /\ cancelOk = [i \in Ids |-> FALSE]
  /\ now = 0
  /\ next_id = 1
  /\ last = [op |-> "init", id |-> UnknownId, ret |-> Value(None)]
  /\ snapshot = {}
  /\ CacheBuilt(MaxSize)
  /\ CallersAtRest

\* get_task: self.tasks.get(task_id); the Optional[Task] is the set of at
\* most one Task, empty for Python's None
get_task(id) == IF id \in DOMAIN tasks THEN {tasks[id]} ELSE {}

\* time passes between two steps of the loop
Tick ==
  /\ now < MaxTime
  /\ now' = now + 1
  /\ UNCHANGED <<tasks, running_tasks, pc, must_cancel, func, execCount,
                 cancelOk, next_id, last>>
  /\ UNCHANGED <<snapshot, cacheVars, callVars>>

\* ---------------------------------------------------------------- create_task
\* asyncio.create_task raises RuntimeError when no event loop is running in
\* the calling thread (loop = FALSE): line 55 has run, line 61 has not.
\* create_task without line 61
RegisteredNot(id) == running_tasks

\* line 61
Registered(id) == running_tasks \cup {id}

CreateTask(fk, loop) ==
  /\ next_id \in Ids
  /\ tasks' = (next_id :> NewTask) @@ tasks
  /\ func' = [func EXCEPT ![next_id] = fk]
  /\ next_id' = next_id + 1
  /\ IF loop
       THEN /\ running_tasks' = Registered(next_id)
            /\ pc' = [pc EXCEPT ![next_id] = "scheduled"]
            /\ last' = [op |-> "create_task", id |-> next_id, ret |-> Value("id")]
       ELSE /\ running_tasks' = running_tasks
            /\ pc' = [pc EXCEPT ![next_id] = "unscheduled"]
            /\ last' = [op |-> "create_task", id |-> next_id,
                        ret |-> Raise("RuntimeError")]
  /\ UNCHANGED <<must_cancel, execCount, cancelOk, now>>
  /\ UNCHANGED <<snapshot, cacheVars, callVars>>

\* ------------------------------------------------------------------ _run_task
\* line 72
TaskStarted(t) == [t EXCEPT !.status = RUNNING]

\* lines 84-86 without line 87
TaskCompletedNoProgress(t, r) ==
  [t EXCEPT !.status = COMPLETED, !.completed_at = now, !.result = r]

\* lines 84-87
TaskCompleted(t, r) ==
  [t EXCEPT !.status = COMPLETED, !.completed_at = now,
            !.result = r, !.progress = 100]

\* lines 91-95 (except Exception as e)
TaskFailed(t, e) ==
  [t EXCEPT !.status = FAILED, !.completed_at = now, !.error = ExcStr(e)]

\* the Task record after the invocation of func ended with outcome o:
\* a BaseException (CancelledError included) passes "except Exception"
TaskAfter(t, o) ==
  CASE o.kind = "return" -> TaskCompleted(t, o.val)
    [] o.kind = "raise" -> TaskFailed(t, o.val)
    [] OTHER -> t

\* _run_task without its finally block
FinallyKeeps(id) == running_tasks

\* lines 99-102 (finally)
Finally(id) == running_tasks \ {id}

\* where the coroutine _run_task ends: it returns, or the exception leaves it
PcAfter(o) == IF o.kind \in {"return", "raise"} THEN "done" ELSE "raised"

Suspend == [kind |-> "suspend", val |-> None]

\* The first step of the coroutine: up to the first suspension point inside
\* func, or to the end.  A plain function has no suspension point.
StartSteps(fk) ==
  Returned \cup Raised \cup BaseRaised
    \cup (IF fk = "coroutine" THEN {Suspend} ELSE {})

WrapperStart(id, o) ==
  /\ pc[id] = "scheduled"
  /\ o \in StartSteps(func[id])
  /\ last' = [op |-> "_run_task", id |-> id, ret |-> o]
  /\ UNCHANGED <<func, cancelOk, now, next_id>>
  /\ UNCHANGED <<snapshot, cacheVars, callVars>>
  /\ IF must_cancel[id]
       THEN \* a task cancelled before its first step never enters the body
            /\ pc' = [pc EXCEPT ![id] = "raised"]
            /\ must_cancel' = [must_cancel EXCEPT ![id] = FALSE]
            /\ UNCHANGED <<tasks, running_tasks, execCount>>
       ELSE /\ execCount' = [execCount EXCEPT ![id] = @ + 1]
            /\ UNCHANGED must_cancel
            /\ IF o = Suspend
                 THEN /\ tasks' = [tasks EXCEPT ![id] = TaskStarted(@)]
                      /\ pc' = [pc EXCEPT ![id] = "awaiting"]
                      /\ UNCHANGED running_tasks
                 ELSE /\ tasks' = [tasks EXCEPT
                                     ![id] = TaskAfter(TaskStarted(@), o)]
                      /\ running_tasks' = Finally(id)
                      /\ pc' = [pc EXCEPT ![id] = PcAfter(o)]

\* The coroutine is resumed at the suspension point inside func.  With a
\* cancellation pending, CancelledError is thrown in there: func lets it
\* out, or catches it and returns, raises, or awaits again.
ResumeSteps(cancelling) ==
  Returned \cup Raised
    \cup (IF cancelling THEN CancelledOut \cup {Suspend} ELSE BaseRaised)

WrapperResume(id, o) ==
  /\ pc[id] = "awaiting"
  /\ o \in ResumeSteps(must_cancel[id])
  /\ last' = [op |-> "_run_task", id |-> id, ret |-> o]
  /\ must_cancel' = [must_cancel EXCEPT ![id] = FALSE]
  /\ UNCHANGED <<func, execCount, cancelOk, now, next_id>>
  /\ UNCHANGED <<snapshot, cacheVars, callVars>>
  /\ IF o = Suspend
       THEN UNCHANGED <<tasks, running_tasks, pc>>
       ELSE /\ tasks' = [tasks EXCEPT ![id] = TaskAfter(@, o)]
            /\ running_tasks' = Finally(id)
            /\ pc' = [pc EXCEPT ![id] = PcAfter(o)]

\* ---------------------------------------------------------------- cancel_task
\* lines 114-116 without the status test of line 116
CanCancelAnyLive(id) == id \in running_tasks

\* lines 114-116
CanCancel(id) == id \in running_tasks /\ tasks[id].status = RUNNING

\* lines 118-120
TaskCancelled(t) ==
  [t EXCEPT !.status = FAILED, !.error = "Task cancelled",
            !.completed_at = now]

\* cancel_task with a del self.running_tasks[task_id] added
CancelledLiveRemoved(id) == running_tasks \ {id}

\* lines 117-123: cancel_task does not touch running_tasks
CancelledLive(id) == running_tasks

CancelTask(id) ==
  /\ UNCHANGED <<pc, func, execCount, now, next_id>>
  /\ UNCHANGED <<snapshot, cacheVars, callVars>>
  /\ IF id \in running_tasks /\ id \notin DOMAIN tasks
       THEN \* line 115: self.tasks[task_id] raises KeyError
            /\ last' = [op |-> "cancel_task", id |-> id,
                        ret |-> Raise("KeyError")]
            /\ UNCHANGED <<tasks, running_tasks, must_cancel, cancelOk>>
       ELSE IF CanCancel(id)
       THEN /\ must_cancel' = [must_cancel EXCEPT ![id] = TRUE]
            /\ tasks' = [tasks EXCEPT ![id] = TaskCancelled(@)]
            /\ running_tasks' = CancelledLive(id)
            /\ cancelOk' = [cancelOk EXCEPT ![id] = TRUE]
            /\ last' = [op |-> "cancel_task", id |-> id,
                        ret |-> Value("True")]
       ELSE /\ last' = [op |-> "cancel_task", id |-> id,
                        ret |-> Value("False")]
            /\ UNCHANGED <<tasks, running_tasks, must_cancel, cancelOk>>

\* ---------------------------------------------------------- cleanup_old_tasks
\* line 129 names timedelta, which the module never imports (line 7 imports
\* datetime only): the call raises NameError before it reads self.tasks.
CleanupOldTasks(max_age_hours) ==
  /\ last' = [op |-> "cleanup_old_tasks", id |-> UnknownId,
              ret |-> Raise("NameError")]
  /\ UNCHANGED <<tasks, running_tasks, pc, must_cancel, func, execCount,
                 cancelOk, now, next_id>>
  /\ UNCHANGED <<snapshot, cacheVars, callVars>>

\* the handlers and the wrapper steps
Step ==
  \/ \E fk \in FuncKinds, loop \in BOOLEAN : CreateTask(fk, loop)
  \/ \E id \in Ids, o \in StartSteps("coroutine") : WrapperStart(id, o)
  \/ \E id \in Ids, o \in ResumeSteps(TRUE) \cup ResumeSteps(FALSE) :
        WrapperResume(id, o)
  \/ \E id \in AnyId : CancelTask(id)
  \/ \E max_age_hours \in MaxAges : CleanupOldTasks(max_age_hours)

Next == Step \/ Tick

Spec == Init /\ [][Next]_vars

\* The event loop runs every scheduled coroutine, and the awaited work of a
\* suspended one eventually resumes it.
Fairness ==
  \A id \in Ids :
    /\ WF_vars(\E o \in StartSteps("coroutine") : WrapperStart(id, o))
    /\ WF_vars(\E o \in ResumeSteps(TRUE) \cup ResumeSteps(FALSE) :
                 WrapperResume(id, o))

\* No guard and no assignment other than a completed_at reads the clock, so
\* the behaviours that decide what is eventually scheduled are those of the
\* handlers and wrapper steps alone, at a clock that stands still.
FairSpec == Init /\ [][Step]_vars /\ Fairness

\* ------------------------------------------------------------ get_all_tasks
\* The dict of line 110, self.tasks.copy(), is a new dict whose values are
\* the Task objects of self.tasks themselves: snapshot holds, for each key,
\* the id of the Task object it refers to.
SnapshotKeys == {kr[1] : kr \in snapshot}
SnapshotRefs == {kr[2] : kr \in snapshot}

\* TaskManager.get_all_tasks (lines 108-110)
GetAllTasks ==
  /\ snapshot' = {<<id, id>> : id \in DOMAIN tasks}
  /\ last' = [op |-> "get_all_tasks", id |-> UnknownId, ret |-> Value(None)]
  /\ UNCHANGED <<tasks, running_tasks, pc, must_cancel, func, execCount,
                 cancelOk, now, next_id, cacheVars, callVars>>

\* the caller removes key k from the dict it holds
SnapshotDelete(k) ==
  /\ k \in SnapshotKeys
  /\ snapshot' = {kr \in snapshot : kr[1] # k}
  /\ UNCHANGED <<taskVars, cacheVars, callVars>>

\* the caller stores, under a key the dict does not hold, a Task it reached
\* through the dict
SnapshotInsert(k, r) ==
  /\ k \notin SnapshotKeys
  /\ r \in SnapshotRefs
  /\ snapshot' = snapshot \cup {<<k, r>>}
  /\ UNCHANGED <<taskVars, cacheVars, callVars>>

\* a text no line of the orchestrator assigns
CallerText == "changed by the caller"

\* the caller assigns a field of the Task under key k: snapshot[k].error =
\* ... writes the object that self.tasks holds
SnapshotMutateTask(k) ==
  /\ k \in SnapshotKeys
  /\ \E kr \in snapshot :
       /\ kr[1] = k
       /\ tasks' = [tasks EXCEPT ![kr[2]].error = CallerText]
  /\ UNCHANGED <<running_tasks, pc, must_cancel, func, execCount, cancelOk,
                 now, next_id, last, snapshot, cacheVars,
                 callVars>>

\* what the holder of a get_all_tasks() result does with it
CallerStep ==
  \/ \E k \in AnyId : SnapshotDelete(k)
  \/ \E k \in AnyId, r \in Ids : SnapshotInsert(k, r)
  \/ \E k \in AnyId : SnapshotMutateTask(k)

SnapshotSpec == Init /\ [][Step \/ GetAllTasks \/ CallerStep]_vars

\* =================================================================== cache
CacheKeys == {"a", "b", "c"}
\* the order of str keys
KeyLess(j, k) == <<j, k>> \in {<<"a", "b">>, <<"a", "c">>, <<"b", "c">>}
CacheValues == {"v1", "v2"}
\* the ttl_seconds argument of set: an Optional[int], the set of at most
\* one int, empty when the caller passes none
TtlArgs == {{}, {0}, {1}}

\* the keys of the dict
KeysOf(c) == {c[i].key : i \in DOMAIN c}
\* the position of key k in the dict's order
IndexOf(c, k) == CHOOSE i \in DOMAIN c : c[i].key = k
\* a del that drops position i and every item after it
DelFrom(c, i) == SubSeq(c, 1, i - 1)

\* del c[key of position i]: the other items keep their order
DelAt(c, i) == [j \in 1..(Len(c) - 1) |-> IF j < i THEN c[j] ELSE c[j + 1]]

\* CacheEntry.__init__ (lines 17-22), as the item stored under key k
CacheEntry(k, value, ttl) ==
  [key |-> k, value |-> value, created_at |-> clock, ttl_seconds |-> ttl,
   access_count |-> 0, last_accessed |-> clock]

\* is_expired with the boundary excluded: an entry aged exactly its ttl is
\* stale
is_expiredAtBoundary(e) == clock - e.created_at >= e.ttl_seconds

\* CacheEntry.is_expired (lines 24-26)
is_expired(e) == clock - e.created_at > e.ttl_seconds

\* access that also renews the entry: created_at moves to the read
accessRenews(e) ==
  [e EXCEPT !.access_count = @ + 1, !.last_accessed = clock,
            !.created_at = clock]

\* CacheEntry.access (lines 28-32)
access(e) ==
  [e EXCEPT !.access_count = @ + 1, !.last_accessed = clock]

\* time.time() advances between two cache operations
CacheTick ==
  /\ clock < MaxClock
  /\ clock' = clock + 1
  /\ UNCHANGED <<cache, stats, max_size, cret, taskVars, snapshot,
                 callVars>>

\* MemoryCache.get (lines 48-63)
CacheGet(k) ==
  /\ stats.hits + stats.misses < MaxCount
  /\ UNCHANGED <<max_size, clock, taskVars, snapshot, callVars>>
  /\ IF k \notin KeysOf(cache)
       THEN /\ stats' = [stats EXCEPT !.misses = @ + 1]
            /\ cret' = [op |-> "get", key |-> k, ret |-> None, n |-> 0,
                        gone |-> <<>>]
            /\ UNCHANGED cache
       ELSE IF is_expired(cache[IndexOf(cache, k)])
       THEN /\ cache' = DelAt(cache, IndexOf(cache, k))
            /\ stats' = [stats EXCEPT !.misses = @ + 1]
            /\ cret' = [op |-> "get", key |-> k, ret |-> None, n |-> 0,
                        gone |-> <<cache[IndexOf(cache, k)]>>]
       ELSE /\ stats' = [stats EXCEPT !.hits = @ + 1]
            /\ cache' = [cache EXCEPT ![IndexOf(cache, k)] = access(@)]
            /\ cret' = [op |-> "get", key |-> k,
                        ret |-> cache[IndexOf(cache, k)].value, n |-> 0,
                        gone |-> <<>>]

\* line 67: ttl_seconds or self.default_ttl; None and 0 are both falsy
TtlOr(t) == IF t = {} \/ t = {0} THEN DefaultTtl ELSE CHOOSE x \in t : TRUE

\* line 70 without its second conjunct: a full cache evicts on every set
NeedsEvictAnyKey(c, k) == Len(c) >= max_size

\* line 70
NeedsEvict(c, k) == Len(c) >= max_size /\ k \notin KeysOf(c)

\* the positions whose last_accessed is the smallest
MinAccessed(c) ==
  {i \in DOMAIN c : \A j \in DOMAIN c :
                      c[i].last_accessed <= c[j].last_accessed}

\* max in place of min: the most recently accessed key
MruIndex(c) ==
  CHOOSE i \in DOMAIN c :
    \A j \in DOMAIN c : c[i].last_accessed >= c[j].last_accessed

\* min that keeps the last of equal keys instead of the first
LruIndexLast(c) ==
  CHOOSE i \in MinAccessed(c) : \A j \in MinAccessed(c) : j <= i

\* lines 96-99: min(keys, key=last_accessed) is the first key, in the
\* dict's order, whose last_accessed is the smallest
LruIndex(c) ==
  CHOOSE i \in DOMAIN c :
    /\ \A j \in DOMAIN c : c[i].last_accessed <= c[j].last_accessed
    /\ \A j \in 1..(i - 1) : c[j].last_accessed > c[i].last_accessed

\* MemoryCache._evict_lru (lines 90-103): the dict afterwards
EvictLru(c) == IF c = <<>> THEN c ELSE DelAt(c, LruIndex(c))

\* line 73: self.cache[key] = entry; an existing key keeps its position
Store(c, e) ==
  IF e.key \in KeysOf(c)
    THEN [c EXCEPT ![IndexOf(c, e.key)] = e]
    ELSE Append(c, e)

\* MemoryCache.set (lines 65-74)
CacheSet(k, value, t) ==
  /\ NeedsEvict(cache, k) /\ cache # <<>> => stats.evictions < MaxCount
  /\ UNCHANGED <<max_size, clock, taskVars, snapshot, callVars>>
  /\ IF NeedsEvict(cache, k)
       THEN /\ cache' = Store(EvictLru(cache), CacheEntry(k, value, TtlOr(t)))
            /\ stats' = IF cache = <<>> THEN stats
                         ELSE [stats EXCEPT !.evictions = @ + 1]
       ELSE /\ cache' = Store(cache, CacheEntry(k, value, TtlOr(t)))
            /\ UNCHANGED stats
  /\ cret' = [op |-> "set", key |-> k, ret |-> None, n |-> 0,
              gone |-> IF NeedsEvict(cache, k) /\ cache # <<>>
                         THEN <<cache[LruIndex(cache)]>> ELSE <<>>]

\* MemoryCache.delete (lines 76-82)
CacheDelete(k) ==
  /\ UNCHANGED <<stats, max_size, clock, taskVars, snapshot, callVars>>
  /\ IF k \in KeysOf(cache)
       THEN /\ cache' = DelAt(cache, IndexOf(cache, k))
            /\ cret' = [op |-> "delete", key |-> k, ret |-> "True", n |-> 0,
                        gone |-> <<>>]
       ELSE /\ UNCHANGED cache
            /\ cret' = [op |-> "delete", key |-> k, ret |-> "False", n |-> 0,
                        gone |-> <<>>]

\* a clear that also resets the counters
CacheClearResets ==
  /\ cache' = <<>>
  /\ stats' = [hits |-> 0, misses |-> 0, evictions |-> 0]
  /\ cret' = [op |-> "clear", key |-> None, ret |-> None, n |-> 0,
              gone |-> <<>>]
  /\ UNCHANGED <<max_size, clock, taskVars, snapshot, callVars>>

\* MemoryCache.clear (lines 84-88)
CacheClear ==
  /\ cache' = <<>>
  /\ cret' = [op |-> "clear", key |-> None, ret |-> None, n |-> 0,
                        gone |-> <<>>]
  /\ UNCHANGED <<stats, max_size, clock, taskVars, snapshot, callVars>>

\* freshness measured from the last read instead of from the insertion
FreshSinceAccess(e) == clock - e.last_accessed <= e.ttl_seconds

\* the items of c that are not expired, in their order
Fresh(e) == ~is_expired(e)

\* a cleanup_expired that counts a miss for every entry it removes
CacheCleanupCountsMisses ==
  /\ cache' = SelectSeq(cache, Fresh)
  /\ stats' = [stats EXCEPT
                 !.misses = @ + Len(cache) - Len(SelectSeq(cache, Fresh))]
  /\ cret' = [op |-> "cleanup_expired", key |-> None, ret |-> None,
              n |-> Len(cache) - Len(SelectSeq(cache, Fresh)),
              gone |-> <<>>]
  /\ UNCHANGED <<max_size, clock, taskVars, snapshot, callVars>>

\* MemoryCache.cleanup_expired (lines 105-118)
CacheCleanupExpired ==
  /\ cache' = SelectSeq(cache, Fresh)
  /\ cret' = [op |-> "cleanup_expired", key |-> None, ret |-> None,
              n |-> Len(cache) - Len(SelectSeq(cache, Fresh)),
              gone |-> <<>>]
  /\ UNCHANGED <<stats, max_size, clock, taskVars, snapshot, callVars>>

CacheNext ==
  \/ \E k \in CacheKeys : CacheGet(k)
  \/ \E k \in CacheKeys, value \in CacheValues, t \in TtlArgs :
        CacheSet(k, value, t)
  \/ \E k \in CacheKeys : CacheDelete(k)
  \/ CacheClear
  \/ CacheCleanupExpired
  \/ CacheTick

\* the item stored under key k
EntryOf(c, k) == c[IndexOf(c, k)]

\* a step of set(k, ...) for a key the dict does not hold
SetsNewKey(k) ==
  /\ k \notin KeysOf(cache)
  /\ \E value \in CacheValues, t \in TtlArgs : CacheSet(k, value, t)

\* the keys a step takes out of the dict
RemovedKeys == KeysOf(cache) \ KeysOf(cache')

\* the age of e at the current time is within its ttl
WithinTtl(e) == clock - e.created_at <= e.ttl_seconds

\* a MemoryCache built with any max_size, the orchestrator at rest
CacheInit ==
  /\ tasks = <<>>
  /\ running_tasks = {}
  /\ pc = [i \in Ids |-> "none"]
  /\ must_cancel = [i \in Ids |-> FALSE]
  /\ func = [i \in Ids |-> "none"]
  /\ execCount = [i \in Ids |-> 0]
  /\ cancelOk = [i \in Ids |-> FALSE]
  /\ now = 0
  /\ next_id = 1
  /\ last = [op |-> "init", id |-> UnknownId, ret |-> Value(None)]
  /\ snapshot = {}
  /\ \E m \in 0..MaxSize : CacheBuilt(m)
  /\ CallersAtRest

CacheSpec == CacheInit /\ [][CacheNext]_vars

\* --------------------------------------------------------------- get_stats
\* the orchestrator as __init__ leaves it, and no caller of get_all_tasks
OrchestratorAtRest ==
  /\ tasks = <<>>
  /\ running_tasks = {}
  /\ pc = [i \in Ids |-> "none"]
  /\ must_cancel = [i \in Ids |-> FALSE]
  /\ func = [i \in Ids |-> "none"]
  /\ execCount = [i \in Ids |-> 0]
  /\ cancelOk = [i \in Ids |-> FALSE]
  /\ now = 0
  /\ next_id = 1
  /\ last = [op |-> "init", id |-> UnknownId, ret |-> Value(None)]
  /\ snapshot = {}

\* A Python float that is the quotient of two small ints is written as the
\* pair <<numerator, denominator>>; two of them are the same number when
\* the cross products agree.
RatEq(x, y) == x[1] * y[2] = y[1] * x[2]

\* h // t, the quotient rounded down to an int
FloorDiv(h, t) == <<h \div t, 1>>

\* h / t (line 123): true division
TrueDiv(h, t) == <<h, t>>

\* lines 122-123
HitRate(h, m) == IF h + m > 0 THEN TrueDiv(h, h + m) ELSE <<0, 1>>

\* lines 132-141: one dict per item, in the dict's order (the two
\* timestamps, rendered as text, are left out)
StatsEntries(c) ==
  [i \in DOMAIN c |->
     [key |-> c[i].key, ttl |-> c[i].ttl_seconds,
      access_count |-> c[i].access_count]]

\* MemoryCache.get_stats (lines 120-142)
GetStats ==
  /\ call' = [fn |-> "get_stats",
              out |-> [size |-> Len(cache), max_size |-> max_size,
                       hits |-> stats.hits, misses |-> stats.misses,
                       evictions |-> stats.evictions,
                       hit_rate |-> HitRate(stats.hits, stats.misses),
                       entries |-> StatsEntries(cache)]]
  /\ UNCHANGED <<taskVars, snapshot, cacheVars, handler>>

\* a cache that has served any number of gets and evictions and holds
\* nothing or one entry
StatsInit ==
  /\ OrchestratorAtRest
  /\ CallersAtRest
  /\ max_size = MaxSize
  /\ clock = 0
  /\ cret = [op |-> "init", key |-> None, ret |-> None, n |-> 0,
             gone |-> <<>>]
  /\ stats \in [hits : 0..MaxGets, misses : 0..MaxGets,
                 evictions : 0..MaxGets]
  /\ \E held \in SUBSET {"a"} :
       cache = IF held = {} THEN <<>> ELSE <<CacheEntry("a", "v1", DefaultTtl)>>

StatsSpec == StatsInit /\ [][GetStats]_vars

\* --------------------------------------------------------------- cache_key
Prefixes == {"p", "q"}
ArgValues == {1, 2}
KwNames == {"x", "y", "z"}
\* the order of the str names
NameRank == [n \in KwNames |-> CASE n = "x" -> 1 [] n = "y" -> 2 [] n = "z" -> 3]

Range(q) == {q[i] : i \in DOMAIN q}

\* *args: a tuple of at most MaxArgs values
ArgTuples == UNION {[1..n -> ArgValues] : n \in 0..MaxArgs}

\* **kwargs: a dict, its items <<name, value>> in the order the call gave
\* them; a name occurs once
KwItems == KwNames \X ArgValues
KwDicts ==
  {kw \in UNION {[1..n -> KwItems] : n \in 0..Cardinality(KwNames)} :
     \A i \in DOMAIN kw, j \in DOMAIN kw : i # j => kw[i][1] # kw[j][1]}

\* the items as the call gave them, unsorted
GivenItems(kw) == kw

\* line 154: sorted(kwargs.items()); the names differ, so the order of the
\* pairs is the order of the names
SortedItems(kw) ==
  CHOOSE q \in [1..Len(kw) -> Range(kw)] :
    \A i \in DOMAIN q, j \in DOMAIN q :
      i < j => NameRank[q[i][1]] < NameRank[q[j][1]]

\* line 158: json.dumps(key_data, sort_keys=True, default=str), the text as
\* its structure: the object's members in the order of their names, tuples
\* and lists both as arrays
JsonDumps(d) == <<"args", d.args, "kwargs", d.kwargs>>

\* line 157-159: hashlib.md5(...).hexdigest(), a function of the text
Md5Hex(text) == <<"md5", text>>

\* cache_key (lines 149-161)
cache_key(prefix, args, kwargs) ==
  <<prefix, ":",
    Md5Hex(JsonDumps([args |-> args, kwargs |-> SortedItems(kwargs)]))>>

\* a call of cache_key
CacheKeyCall(prefix, args, kwargs) ==
  /\ call' = [fn |-> "cache_key", prefix |-> prefix, args |-> args,
              kwargs |-> kwargs, out |-> cache_key(prefix, args, kwargs)]
  /\ UNCHANGED <<taskVars, snapshot, cacheVars, handler>>

KeyNext ==
  \E prefix \in Prefixes, args \in ArgTuples, kwargs \in KwDicts :
    CacheKeyCall(prefix, args, kwargs)

KeySpec == Init /\ [][KeyNext]_vars

\* ------------------------------------------------- handlers on the event loop
\* Every caller of the cache is an async def handler of fastapi_backend.py on
\* the one event loop; the loop passes control to another handler only at
\* an await.  MemoryCache.get is a plain def and contains no await: here
\* it runs statement by statement, so that what may run between two of its
\* statements is decided by the loop and not by the shape of the action.
HandlerKeys == {"a", "b"}

\* preemptive scheduling: any handler may run at any time
LoopIdleAlways == TRUE

\* the loop can resume a handler: no handler is inside a call that has not
\* reached an await or returned
LoopIdle == \A g \in Handlers : handler[g].pc = "await"

At(h, p) == handler[h].pc = p
Goto(h, p) == handler' = [handler EXCEPT ![h].pc = p]
Return(h) == handler' = [handler EXCEPT ![h] = [pc |-> "await", key |-> None]]

\* the loop resumes handler h, which calls cache.get(k)
GetEnter(h, k) ==
  /\ LoopIdle
  /\ stats.hits + stats.misses < MaxGets
  /\ handler' = [handler EXCEPT ![h] = [pc |-> "line50", key |-> k]]
  /\ UNCHANGED <<taskVars, snapshot, cacheVars, call>>

\* lines 50-53: the lookup; an absent key is a miss
GetLookup(h) ==
  /\ At(h, "line50")
  /\ IF handler[h].key \notin KeysOf(cache)
       THEN /\ stats' = [stats EXCEPT !.misses = @ + 1]
            /\ cret' = [op |-> "get", key |-> handler[h].key, ret |-> None,
                        n |-> 0, gone |-> <<>>]
            /\ Return(h)
       ELSE /\ Goto(h, "line56")
            /\ UNCHANGED <<stats, cret>>
  /\ UNCHANGED <<taskVars, snapshot, cache, max_size, clock, call>>

\* lines 55-56: the staleness check
GetCheck(h) ==
  /\ At(h, "line56")
  /\ IF is_expired(EntryOf(cache, handler[h].key))
       THEN Goto(h, "line57")
       ELSE Goto(h, "line61")
  /\ UNCHANGED <<taskVars, snapshot, cacheVars, call>>

\* line 57: the removal
GetRemove(h) ==
  /\ At(h, "line57")
  /\ cache' = DelAt(cache, IndexOf(cache, handler[h].key))
  /\ cret' = [op |-> "get", key |-> handler[h].key, ret |-> None, n |-> 0,
              gone |-> <<EntryOf(cache, handler[h].key)>>]
  /\ Goto(h, "line58")
  /\ UNCHANGED <<taskVars, snapshot, stats, max_size, clock, call>>

\* lines 58-59: the miss is counted and reported
GetMiss(h) ==
  /\ At(h, "line58")
  /\ stats' = [stats EXCEPT !.misses = @ + 1]
  /\ Return(h)
  /\ UNCHANGED <<taskVars, snapshot, cache, max_size, clock, cret, call>>

\* lines 61-63: the hit
GetHit(h) ==
  /\ At(h, "line61")
  /\ stats' = [stats EXCEPT !.hits = @ + 1]
  /\ cache' = [cache EXCEPT ![IndexOf(cache, handler[h].key)] = access(@)]
  /\ cret' = [op |-> "get", key |-> handler[h].key,
              ret |-> EntryOf(cache, handler[h].key).value, n |-> 0,
              gone |-> <<>>]
  /\ Return(h)
  /\ UNCHANGED <<taskVars, snapshot, max_size, clock, call>>

\* a step of the get that handler h is in
GetStep(h) ==
  \/ GetLookup(h)
  \/ GetCheck(h)
  \/ GetRemove(h)
  \/ GetMiss(h)
  \/ GetHit(h)

\* the loop resumes a handler that calls another cache operation
OtherOp ==
  /\ LoopIdle
  /\ \/ \E k \in HandlerKeys, t \in {{}, {1}} : CacheSet(k, "v1", t)
     \/ \E k \in HandlerKeys : CacheDelete(k)
     \/ CacheClear
     \/ CacheCleanupExpired

HandlerNext ==
  \/ \E h \in Handlers, k \in HandlerKeys : GetEnter(h, k)
  \/ \E h \in Handlers : GetStep(h)
  \/ OtherOp
  \/ CacheTick

HandlerSpec == Init /\ [][HandlerNext]_vars

\* ------------------------------------------------------------------ cached
\* what the wrapped function can return: None, a falsy value that is not
\* None (0, "", False, []), and a truthy value
FuncResults == {None, "0", "r1"}
\* the decorator's ttl_seconds, an Optional[int] as in TtlArgs
CachedTtl == {{1}}
\* the decorator's key_prefix
CachedPrefix == "f"

\* the key of wrapper(a) (lines 169-173)
CachedKey(a) == cache_key(CachedPrefix, <<a>>, <<>>)

\* how cache.get(k) ends on the dict c: the three paths of lines 50-63
GetPath(c, k) ==
  IF k \notin KeysOf(c) THEN "absent"
  ELSE IF is_expired(EntryOf(c, k)) THEN "stale" ELSE "hit"

\* the dict after cache.get(k)
DictAfterGet(c, k) ==
  CASE GetPath(c, k) = "absent" -> c
    [] GetPath(c, k) = "stale" -> DelAt(c, IndexOf(c, k))
    [] GetPath(c, k) = "hit" -> [c EXCEPT ![IndexOf(c, k)] = access(@)]

\* the counters after cache.get(k)
StatsAfterGet(st, c, k) ==
  IF GetPath(c, k) = "hit"
    THEN [st EXCEPT !.hits = @ + 1]
    ELSE [st EXCEPT !.misses = @ + 1]

\* what cache.get(k) returns
GetReturn(c, k) ==
  IF GetPath(c, k) = "hit" THEN EntryOf(c, k).value ELSE None

\* the dict after cache.set(k, value, t) (lines 65-74)
DictAfterSet(c, k, value, t) ==
  IF NeedsEvict(c, k)
    THEN Store(EvictLru(c), CacheEntry(k, value, TtlOr(t)))
    ELSE Store(c, CacheEntry(k, value, TtlOr(t)))

\* the counters after cache.set(k, ...)
StatsAfterSet(st, c, k) ==
  IF NeedsEvict(c, k) /\ c # <<>>
    THEN [st EXCEPT !.evictions = @ + 1]
    ELSE st

\* line 177: if cached_result is not None
FromCache(r) == r # None

\* wrapper(a) of a function decorated with cached (lines 166-184); the
\* wrapped function is a plain def and runs inside the call
CachedCall(a) ==
  /\ stats.hits + stats.misses < MaxGets
  /\ IF FromCache(GetReturn(cache, CachedKey(a)))
       THEN /\ cache' = DictAfterGet(cache, CachedKey(a))
            /\ stats' = StatsAfterGet(stats, cache, CachedKey(a))
            /\ cret' = [op |-> "get", key |-> CachedKey(a),
                        ret |-> GetReturn(cache, CachedKey(a)), n |-> 0,
                        gone |-> <<>>]
            /\ call' = [fn |-> "cached", arg |-> a,
                        ret |-> GetReturn(cache, CachedKey(a)),
                        executed |-> FALSE]
       ELSE \E result \in FuncResults, t \in CachedTtl :
            LET c1 == DictAfterGet(cache, CachedKey(a))
                st1 == StatsAfterGet(stats, cache, CachedKey(a))
            IN /\ cache' = DictAfterSet(c1, CachedKey(a), result, t)
               /\ stats' = StatsAfterSet(st1, c1, CachedKey(a))
               /\ cret' = [op |-> "set", key |-> CachedKey(a), ret |-> None,
                           n |-> 0,
                           gone |-> IF NeedsEvict(c1, CachedKey(a)) /\ c1 # <<>>
                                      THEN <<c1[LruIndex(c1)]>> ELSE <<>>]
               /\ call' = [fn |-> "cached", arg |-> a, ret |-> result,
                           executed |-> TRUE]
  /\ UNCHANGED <<taskVars, snapshot, max_size, clock, handler>>

CachedNext ==
  \/ \E a \in ArgValues : CachedCall(a)
  \/ CacheClear
  \/ CacheTick

CachedSpec == Init /\ [][CachedNext]_vars

\* ------------------------------------------------------------ user entries
\* A user id is a str, here the sequence of its characters; a key
\* f"session:{user_id}" is the prefix followed by those characters.
IdChars == {"1", "2"}
UserIds == UNION {[1..n -> IdChars] : n \in 1..MaxIdLen}
SessionKey(u) == <<"session:">> \o u
UserKey(u) == <<"user:">> \o u

\* str.startswith
StartsWith(str, prefix) ==
  /\ Len(prefix) <= Len(str)
  /\ SubSeq(str, 1, Len(prefix)) = prefix

\* lines 232-234: the keys invalidate_user_cache(u) collects
KeysToDelete(c, u) ==
  {k \in KeysOf(c) : StartsWith(k, SessionKey(u)) \/ StartsWith(k, UserKey(u))}

\* lines 236-237: cache.delete of every key of ks; the other items keep
\* their order
Without(c, ks) ==
  LET kept[i \in 0..Len(c)] ==
        IF i = 0 THEN <<>>
        ELSE IF c[i].key \in ks THEN kept[i - 1]
        ELSE Append(kept[i - 1], c[i])
  IN kept[Len(c)]

\* cache_user_session (lines 194-197), with the ttl of 1800 s on the scale
\* of DefaultTtl
CacheUserSession(u) == CacheSet(SessionKey(u), "v1", {1})

\* a caller stores an entry under the user's other key, f"user:{user_id}"
CacheUserData(u) == CacheSet(UserKey(u), "v1", {})

\* invalidate_user_cache (lines 228-239)
InvalidateUserCache(u) ==
  /\ cache' = Without(cache, KeysToDelete(cache, u))
  /\ cret' = [op |-> "invalidate_user_cache", key |-> u, ret |-> None,
              n |-> Cardinality(KeysToDelete(cache, u)), gone |-> <<>>]
  /\ UNCHANGED <<stats, max_size, clock, taskVars, snapshot, callVars>>

UserNext ==
  \/ \E u \in UserIds : CacheUserSession(u)
  \/ \E u \in UserIds : CacheUserData(u)
  \/ \E u \in UserIds : InvalidateUserCache(u)

UserSpec == Init /\ [][UserNext]_vars

TypeOK ==
  /\ DOMAIN tasks \subseteq Ids
  /\ running_tasks \subseteq Ids
  /\ \A id \in DOMAIN tasks : tasks[id].status \in TaskStatus
  /\ now \in 0..MaxTime

Terminal == {COMPLETED, FAILED}

\* ===================================================================== C1
\* the status changes the state machine allows in one step of the loop: its
\* edges PENDING->RUNNING, RUNNING->COMPLETED, RUNNING->FAILED and
\* PENDING->FAILED, and PENDING->COMPLETED for a wrapper that starts and
\* ends without suspending (PENDING->RUNNING->COMPLETED)
AllowedChange ==
  {<<PENDING, RUNNING>>, <<RUNNING, COMPLETED>>, <<RUNNING, FAILED>>,
   <<PENDING, FAILED>>, <<PENDING, COMPLETED>>}

\* C1: a task's status changes only along the edges of the state machine,
\* and the status of a COMPLETED or FAILED task never changes again.
C1_StatusOnlyAlongEdges ==
  [][\A id \in DOMAIN tasks :
       \/ tasks'[id].status = tasks[id].status
       \/ <<tasks[id].status, tasks'[id].status>> \in AllowedChange]_vars

\* ===================================================================== C2
\* create_task(id) has returned and the wrapper has not started
PendingUnstarted(id) ==
  /\ id \in DOMAIN tasks
  /\ tasks[id].status = PENDING
  /\ pc[id] = "scheduled"

C4_CancelTerminalOrUnknown ==
  [][\A id \in AnyId :
       /\ id \notin DOMAIN tasks \/ tasks[id].status \in Terminal
       /\ CancelTask(id)
       => /\ last'.ret = Value("False")
          /\ UNCHANGED <<tasks, running_tasks, must_cancel>>]_vars

\* the second cancel_task of a task whose first cancel returned true, while
\* its handle is still registered
C4_Witness ==
  /\ last.op = "cancel_task"
  /\ last.ret = Value("False")
  /\ last.id \in running_tasks
  /\ cancelOk[last.id]
  /\ tasks[last.id].status = FAILED

C6_TerminalEventuallyNotLive ==
  \A id \in Ids :
    (id \in DOMAIN tasks /\ tasks[id].status \in Terminal)
      ~> (id \notin running_tasks)

\* a task made FAILED by cancel_task whose wrapper has since ended
C6_Witness ==
  \E id \in DOMAIN tasks :
    /\ cancelOk[id]
    /\ tasks[id].status \in Terminal
    /\ pc[id] \in {"done", "raised"}
    /\ id \notin running_tasks

\* ===================================================================== C7
\* C7: in the state right after create_task returned id, get_task(id) is
\* not absent and reports PENDING, id is in running_tasks, and the work has
\* not started.
C7_CreateRegistersBeforeReturn ==
  (last.op = "create_task" /\ last.ret = Value("id"))
    => /\ get_task(last.id) # {}
       /\ \A t \in get_task(last.id) : t.status = PENDING
       /\ last.id \in running_tasks
       /\ execCount[last.id] = 0

\* create_task returned while the wrapper of an earlier task is suspended
C7_Witness ==
  /\ last.op = "create_task"
  /\ last.ret = Value("id")
  /\ \E other \in Ids : other # last.id /\ pc[other] = "awaiting"

\* ===================================================================== C8
\* C8: the work of every id returned by create_task is invoked exactly
\* once: at no time more than once, and, under fair scheduling of the
\* wrapper, eventually once.
C8_WorkExecutedExactlyOnce ==
  /\ [](\A id \in Ids : execCount[id] <= 1)
  /\ \A id \in Ids : (pc[id] = "scheduled") ~> (execCount[id] = 1)

\* a task that was cancelled, whose work has run once and whose wrapper has
\* ended, with cleanup_old_tasks called afterwards
C8_Witness ==
  /\ last.op = "cleanup_old_tasks"
  /\ \E id \in Ids :
       cancelOk[id] /\ pc[id] \in {"done", "raised"} /\ execCount[id] = 1

\* ===================================================================== C9
\* C9: when the work of a task that was not cancelled returns r, the task
\* is COMPLETED with result = r, progress = 100, no error and completed_at
\* set.
C9_ReturnCompletes ==
  (last.op = "_run_task" /\ last.ret.kind = "return" /\ ~cancelOk[last.id])
    => /\ tasks[last.id].status = COMPLETED
       /\ tasks[last.id].result = last.ret.val
       /\ tasks[last.id].progress = 100
       /\ tasks[last.id].error = None
       /\ tasks[last.id].completed_at # NoTime
       /\ pc[last.id] = "done"

C9_Witness ==
  /\ last.op = "_run_task"
  /\ last.ret = [kind |-> "return", val |-> "r1"]
  /\ ~cancelOk[last.id]
  /\ tasks[last.id].result = "r1"

\* ==================================================================== C10
\* C10: when the work of a task raises any failure, the task is FAILED with
\* a non-empty error, no result and completed_at set, and the failure does
\* not leave the wrapper.
C10_RaiseFailsWithDescription ==
  (last.op = "_run_task" /\ last.ret.kind \in {"raise", "base"})
    => /\ tasks[last.id].status = FAILED
       /\ tasks[last.id].error \notin {None, ""}
       /\ tasks[last.id].result = None
       /\ tasks[last.id].completed_at # NoTime
       /\ pc[last.id] = "done"

\* ==================================================================== C11
\* C11: for every task record, result is present exactly when the status is
\* COMPLETED, and error is present exactly when the status is FAILED.
C11_ResultAndErrorFollowStatus ==
  \A id \in DOMAIN tasks :
    /\ (tasks[id].result # None) <=> (tasks[id].status = COMPLETED)
    /\ (tasks[id].error # None) <=> (tasks[id].status = FAILED)

\* the part of C11 that fails without a work that returns None: a COMPLETED
\* task never carries an error
C11_CompletedHasNoError ==
  \A id \in DOMAIN tasks :
    tasks[id].status = COMPLETED => tasks[id].error = None

\* ==================================================================== C12
\* C12: nothing the caller does to the value get_all_tasks returned (adding
\* or removing ids of the mapping, changing fields of the task records
\* reached through it) changes what get_task reports.
C12_CallerCannotChangeReports ==
  [][CallerStep => \A id \in AnyId : get_task(id)' = get_task(id)]_vars

\* ==================================================================== C13
\* C13: cleanup_old_tasks(max_age) returns normally and removes exactly the
\* COMPLETED or FAILED tasks whose completed_at is older than now - max_age,
\* with their live entries; every other task stays.
OldTerminal(id, max_age_hours) ==
  /\ tasks[id].status \in Terminal
  /\ tasks[id].completed_at # NoTime
  /\ tasks[id].completed_at < now - max_age_hours

C13_CleanupRemovesOldTerminal ==
  [][\A max_age_hours \in MaxAges : CleanupOldTasks(max_age_hours) =>
       /\ last'.ret.kind = "value"
       /\ DOMAIN tasks' =
            {id \in DOMAIN tasks : ~OldTerminal(id, max_age_hours)}
       /\ \A id \in DOMAIN tasks' : tasks'[id] = tasks[id]
       /\ running_tasks' =
            {id \in running_tasks : ~OldTerminal(id, max_age_hours)}]_vars

\* ==================================================================== C14
\* C14: after a set that inserted a key not already present, the cache holds
\* at most max_size entries, for every max_size.
C14_NewKeyKeepsSizeBound ==
  [][\A k \in CacheKeys : SetsNewKey(k) => Len(cache') <= max_size]_vars

C16_TieByCreatedThenKey ==
  [][\A k \in CacheKeys :
       (SetsNewKey(k) /\ cache # <<>> /\ Len(cache) = max_size
          /\ Cardinality(MinAccessed(cache)) > 1) =>
       \A r \in RemovedKeys : \A j \in MinAccessed(cache) :
          \/ EntryOf(cache, r).created_at < cache[j].created_at
          \/ /\ EntryOf(cache, r).created_at = cache[j].created_at
             /\ (r = cache[j].key \/ KeyLess(r, cache[j].key))]_vars

\* C16 as the code has it: of the entries that share the smallest
\* last_accessed, the evicted one is the first in the dict's order, the
\* order of first insertion (an overwritten key keeps its position).
C16_TieByInsertionOrder ==
  [][\A k \in CacheKeys :
       (SetsNewKey(k) /\ cache # <<>> /\ Len(cache) >= max_size
          /\ Cardinality(MinAccessed(cache)) > 1) =>
       /\ RemovedKeys # {}
       /\ \A r \in RemovedKeys : \A j \in MinAccessed(cache) :
            IndexOf(cache, r) <= j]_vars

\* a set evicted an entry although an entry with the same last_accessed and
\* an earlier created_at stayed
C16_Witness ==
  /\ cret.op = "set"
  /\ cret.gone # <<>>
  /\ \E i \in DOMAIN cache :
       /\ cache[i].key # cret.key
       /\ cache[i].last_accessed = cret.gone[1].last_accessed
       /\ cache[i].created_at < cret.gone[1].created_at

\* ==================================================================== C17
\* C17: get(k) returns the stored value exactly when an entry for k exists
\* and its age is at most its ttl; when the entry exists and is older, get
\* returns None, removes the entry and adds one to misses.
C17_GetReturnsIffFresh ==
  [][\A k \in CacheKeys : CacheGet(k) =>
       IF k \in KeysOf(cache) /\ WithinTtl(EntryOf(cache, k))
         THEN /\ cret'.ret = EntryOf(cache, k).value
              /\ cret'.ret # None
         ELSE /\ cret'.ret = None
              /\ k \in KeysOf(cache) =>
                   /\ k \notin KeysOf(cache')
                   /\ Len(cache') = Len(cache) - 1
                   /\ stats'.misses = stats.misses + 1]_vars

\* a get found its entry older than its ttl, removed it and counted a miss
C17_Witness ==
  /\ cret.op = "get"
  /\ cret.ret = None
  /\ cret.gone # <<>>
  /\ clock - cret.gone[1].created_at > cret.gone[1].ttl_seconds
  /\ cret.key \notin KeysOf(cache)
  /\ stats.misses = 1

\* ==================================================================== C18
\* C18: a get that hits adds one to hits and to the entry's access_count and
\* sets last_accessed to now, and leaves value, created_at and ttl as they
\* were, so a read never postpones the time the entry becomes stale.
C18_HitKeepsStalenessTime ==
  [][\A k \in CacheKeys :
       (k \in KeysOf(cache) /\ WithinTtl(EntryOf(cache, k)) /\ CacheGet(k)) =>
       /\ stats'.hits = stats.hits + 1
       /\ KeysOf(cache') = KeysOf(cache)
       /\ EntryOf(cache', k).access_count = EntryOf(cache, k).access_count + 1
       /\ EntryOf(cache', k).last_accessed = clock
       /\ EntryOf(cache', k).value = EntryOf(cache, k).value
       /\ EntryOf(cache', k).created_at = EntryOf(cache, k).created_at
       /\ EntryOf(cache', k).ttl_seconds = EntryOf(cache, k).ttl_seconds]_vars

\* a get hit an entry some time after it was stored
C18_Witness ==
  /\ cret.op = "get"
  /\ cret.ret # None
  /\ stats.hits = 1
  /\ \E i \in DOMAIN cache :
       /\ cache[i].key = cret.key
       /\ cache[i].access_count = 1
       /\ cache[i].last_accessed = clock
       /\ cache[i].created_at < clock

\* ==================================================================== C19
\* C19: set on a key already present evicts nothing and leaves evictions as
\* it was, even in a full cache; it replaces the value and gives the entry a
\* created_at of now, so the entry is within its ttl again, and every other
\* entry is unchanged.
C19_OverwriteNeverEvicts ==
  [][\A k \in CacheKeys, value \in CacheValues, t \in TtlArgs :
       (k \in KeysOf(cache) /\ CacheSet(k, value, t)) =>
       /\ KeysOf(cache') = KeysOf(cache)
       /\ Len(cache') = Len(cache)
       /\ stats' = stats
       /\ EntryOf(cache', k).value = value
       /\ EntryOf(cache', k).created_at = clock
       /\ \A j \in CacheKeys \ {k} :
            j \in KeysOf(cache) => EntryOf(cache', j) = EntryOf(cache, j)]_vars

\* a set overwrote a key of a full cache: the entry keeps its earlier place
\* in the dict and is younger than the entry inserted after it
C19_Witness ==
  /\ cret.op = "set"
  /\ cret.gone = <<>>
  /\ max_size >= 1
  /\ Len(cache) = max_size
  /\ \E i \in DOMAIN cache, j \in DOMAIN cache :
       /\ i < j
       /\ cache[i].key = cret.key
       /\ cache[i].created_at > cache[j].created_at

\* ==================================================================== C20
\* C20: set(key, value, ttl) stores the entry with the ttl the caller
\* passed, 0 included, and with default_ttl only when the caller passed none.
C20_StoresCallerTtl ==
  [][\A k \in CacheKeys, value \in CacheValues, t \in TtlArgs :
       CacheSet(k, value, t) =>
         EntryOf(cache', k).ttl_seconds =
           IF t = {} THEN DefaultTtl ELSE CHOOSE x \in t : TRUE]_vars

\* ==================================================================== C21
\* C21: delete(key) returns True exactly when an entry for key was present;
\* afterwards the key is absent until a set stores it again, and every other
\* entry and the three counters are as they were.
C21_DeleteRemovesOnlyItsKey ==
  [][/\ \A k \in CacheKeys : CacheDelete(k) =>
          /\ cret'.ret = (IF k \in KeysOf(cache) THEN "True" ELSE "False")
          /\ k \notin KeysOf(cache')
          /\ stats' = stats
          /\ KeysOf(cache') = KeysOf(cache) \ {k}
          /\ \A j \in KeysOf(cache) \ {k} :
               EntryOf(cache', j) = EntryOf(cache, j)
     /\ \A k \in CacheKeys :
          (k \notin KeysOf(cache) /\ k \in KeysOf(cache')) =>
            (cret'.op = "set" /\ cret'.key = k)]_vars

\* a delete removed one entry of two, after a get had counted a hit
C21_Witness ==
  /\ cret.op = "delete"
  /\ cret.ret = "True"
  /\ cret.key \notin KeysOf(cache)
  /\ Len(cache) = 1
  /\ stats.hits = 1

\* ==================================================================== C22
\* C22: hits, misses and evictions never decrease; clear removes every entry
\* and leaves the three counters at their values.
C22_CountersNeverDecrease ==
  [][/\ stats'.hits >= stats.hits
     /\ stats'.misses >= stats.misses
     /\ stats'.evictions >= stats.evictions
     /\ CacheClear => (cache' = <<>> /\ stats' = stats)]_vars

\* a clear emptied the cache and the counters still show a miss and an
\* eviction
C22_Witness ==
  /\ cret.op = "clear"
  /\ cache = <<>>
  /\ stats.misses = 1
  /\ stats.evictions = 1

\* ==================================================================== C23
\* C23: cleanup_expired removes exactly the entries older than their ttl,
\* keeps every other entry unchanged, returns the number it removed and
\* changes no counter.
C23_CleanupRemovesExactlyStale ==
  [][CacheCleanupExpired =>
       /\ cache' = SelectSeq(cache, WithinTtl)
       /\ cret'.n = Len(cache) - Len(cache')
       /\ stats' = stats]_vars

\* a cleanup_expired removed one entry and kept another
C23_Witness ==
  /\ cret.op = "cleanup_expired"
  /\ cret.n = 1
  /\ cache # <<>>

\* ==================================================================== C28
\* C28: every get adds one to exactly one of hits and misses, and no other
\* cache operation changes hits or misses.
C28_OnlyGetCounts ==
  [][IF \E k \in CacheKeys : CacheGet(k)
       THEN \/ /\ stats'.hits = stats.hits + 1
               /\ stats'.misses = stats.misses
            \/ /\ stats'.hits = stats.hits
               /\ stats'.misses = stats.misses + 1
       ELSE /\ stats'.hits = stats.hits
            /\ stats'.misses = stats.misses]_vars

\* a get of a key the cache does not hold counted the only miss
C28_Witness ==
  /\ cret.op = "get"
  /\ cret.gone = <<>>
  /\ cret.ret = None
  /\ cache # <<>>
  /\ stats.misses = 1
  /\ stats.hits = 0

\* ==================================================================== C27
\* C27: every task that is PENDING or RUNNING has a handle in running_tasks,
\* in every reachable state.
C27_NonTerminalIsLive ==
  \A id \in DOMAIN tasks :
    tasks[id].status \in {PENDING, RUNNING} => id \in running_tasks

\* ==================================================================== C24
\* C24: get_stats().hit_rate is hits / (hits + misses) when a get has been
\* made (0.75 after 3 hits and 1 miss) and 0 when none has; get_stats
\* changes no entry and no counter.
C24_HitRateIsHitsOverGets ==
  [][GetStats =>
       /\ cache' = cache
       /\ stats' = stats
       /\ stats.hits + stats.misses > 0 =>
            RatEq(call'.out.hit_rate, <<stats.hits, stats.hits + stats.misses>>)
       /\ (stats.hits = 3 /\ stats.misses = 1) =>
            RatEq(call'.out.hit_rate, <<3, 4>>)
       /\ stats.hits + stats.misses = 0 =>
            RatEq(call'.out.hit_rate, <<0, 1>>)]_vars

\* get_stats reported on a cache with 3 hits, 1 miss and an entry
C24_Witness ==
  /\ call.fn = "get_stats"
  /\ call.out.hits = 3
  /\ call.out.misses = 1
  /\ call.out.size = 1

\* ==================================================================== C25
\* C25: cache_key returns the same key for the same prefix, the same
\* positional arguments and the same name-to-value mapping, whatever order
\* the mapping's entries are given in.
C25_KeyIgnoresMappingOrder ==
  [][(/\ call.fn = "cache_key"
      /\ call'.fn = "cache_key"
      /\ call'.prefix = call.prefix
      /\ call'.args = call.args
      /\ Range(call'.kwargs) = Range(call.kwargs))
       => call'.out = call.out]_vars

\* cache_key was called with a mapping of all three names, given in another
\* order than the order of the names
C25_Witness ==
  /\ call.fn = "cache_key"
  /\ Len(call.kwargs) = Cardinality(KwNames)
  /\ NameRank[call.kwargs[1][1]] > NameRank[call.kwargs[2][1]]
  /\ call.args # <<>>

\* ==================================================================== C26
\* C26: while a handler is inside a get, from its lookup to its counter
\* update, no other cache operation runs: no set, delete, clear or
\* cleanup_expired, and no step of another handler's get.
C26_GetIsIndivisible ==
  [][\A h \in Handlers : ~At(h, "await") =>
       /\ ~OtherOp
       /\ \A g \in Handlers \ {h} : handler'[g] = handler[g]]_vars

\* a handler has found its entry stale and not yet removed it, at a time
\* when the cache holds another entry too
C26_Witness ==
  /\ \E h \in Handlers : At(h, "line57")
  /\ Len(cache) = 2

\* ==================================================================== C29
\* C29: a call of a cached function whose key has an entry that is within
\* its ttl returns the value of that entry and does not execute the wrapped
\* function, whatever the value is (None and other falsy values included).
C29_RepeatReturnsCached ==
  [][\A a \in ArgValues :
       (/\ CachedKey(a) \in KeysOf(cache)
        /\ WithinTtl(EntryOf(cache, CachedKey(a)))
        /\ CachedCall(a))
       => /\ call'.ret = EntryOf(cache, CachedKey(a)).value
          /\ ~call'.executed]_vars

\* the part of C29 that holds: a stored value that is not None, falsy or
\* not, is returned without a second execution
C29_RepeatReturnsCachedUnlessNone ==
  [][\A a \in ArgValues :
       (/\ CachedKey(a) \in KeysOf(cache)
        /\ WithinTtl(EntryOf(cache, CachedKey(a)))
        /\ EntryOf(cache, CachedKey(a)).value # None
        /\ CachedCall(a))
       => /\ call'.ret = EntryOf(cache, CachedKey(a)).value
          /\ ~call'.executed]_vars

\* ==================================================================== C30
\* C30: invalidate_user_cache(u) removes the entries under session:u and
\* user:u and leaves the entries of every other user id unchanged, also of
\* the user ids that have u as a prefix.
C30_InvalidateOnlyThatUser ==
  [][\A u \in UserIds : InvalidateUserCache(u) =>
       /\ SessionKey(u) \notin KeysOf(cache')
       /\ UserKey(u) \notin KeysOf(cache')
       /\ \A w \in UserIds \ {u} :
            \A k \in {SessionKey(w), UserKey(w)} \cap KeysOf(cache) :
              /\ k \in KeysOf(cache')
              /\ EntryOf(cache', k) = EntryOf(cache, k)]_vars

\* the part of C30 that holds: the entries of u are removed, and the
\* entries of the user ids that do not begin with u stay as they are
C30_InvalidateKeepsUnrelatedUsers ==
  [][\A u \in UserIds : InvalidateUserCache(u) =>
       /\ SessionKey(u) \notin KeysOf(cache')
       /\ UserKey(u) \notin KeysOf(cache')
       /\ \A w \in {x \in UserIds : ~StartsWith(x, u)} :
            \A k \in {SessionKey(w), UserKey(w)} \cap KeysOf(cache) :
              /\ k \in KeysOf(cache')
              /\ EntryOf(cache', k) = EntryOf(cache, k)]_vars

====
